---- MODULE Spec2Model ----
(***************************************************************************)
(* Model of src/Modelling_Virus_Population_Growth.py: the virus particles  *)
(* (SimpleVirus, ResistantVirus) and the hosts (Patient, TreatedPatient).  *)
(*                                                                         *)
(* Probabilities are exact rationals <<n, ProbScale>> (n in 0..ProbScale), *)
(* standing for n/ProbScale; every rational is a pair <<numerator,         *)
(* denominator>> with a positive denominator, compared by cross            *)
(* multiplication.  A value returned by random.random() is a rational in   *)
(* [0,1).  The code uses a draw once, in one comparison with a threshold,  *)
(* so the draws of a test are taken from DrawsAround(threshold): a value   *)
(* below, a value equal to and a value above the threshold, each when      *)
(* [0,1) has one.  The population density is the pair                      *)
(* <<len(surviving_virus), maxPop>>.                                       *)
(* update() is a sequential loop program; the model follows it one loop    *)
(* iteration at a time (pc), and no other method runs while it is active.  *)
(* simulationWithoutDrug is followed the same way (simpc); Spec and         *)
(* SpecDraws drive the host directly and leave its variables untouched.    *)
(***************************************************************************)
EXTENDS Integers, Sequences, FiniteSets, TLC

VARIABLES
    kind,             \* class of the host: "Patient" or "TreatedPatient"
    viruses,          \* self.viruses
    maxPop,           \* self.maxPop
    presDrugs,        \* self.presDrugs (TreatedPatient only; <<>> otherwise)
    pc,               \* position inside update(): idle/clear/repro/return
    i,                \* index of the running for loop of update()
    surviving_virus,  \* local of update()
    popDensity,       \* local of update(): <<numerator, denominator>>
    new_virus,        \* local of update()
    op,               \* the last method called on the host and its argument
    ret,              \* the value returned by the last call (NoValue if none)
    oldPop,           \* len(self.viruses) when the running update() began
    calls,            \* number of doesClear()/reproduce() calls of the running update()
    lastClear,        \* the last doesClear() call of the running update(): {} or {record}
    lastRepro,        \* the last reproduce() call of the running update(): {} or {record}
    args,             \* the arguments of simulationWithoutDrug (NoArgs if not running)
    simpc,            \* position inside simulationWithoutDrug: off/trial/loop/update/done
    trial,            \* the loop variable i of `for i in range(numTrials)`
    step,             \* iterations done of `for _ in range(steps)` in this trial
    virus_count,      \* local of simulationWithoutDrug
    results           \* local of simulationWithoutDrug: results[trial + 1]

simVars == <<args, simpc, trial, step, virus_count, results>>

vars == <<kind, viruses, maxPop, presDrugs, pc, i, surviving_virus, popDensity,
          new_virus, op, ret, oldPop, calls, lastClear, lastRepro, simVars>>

----------------------------------------------------------------------------
(* Bounds *)

ProbScale == 2
MaxViruses == 2
MaxTrials == 2
MaxSteps == 2

Drugs == {"guttagonol", "srinol"}
Probs == 0..ProbScale

\* rationals <<numerator, denominator>>, denominator > 0
RatGeq(x, y) == x[1] * y[2] >= y[1] * x[2]
RatGt(x, y) == x[1] * y[2] > y[1] * x[2]
RatEq(x, y) == x[1] * y[2] = y[1] * x[2]

\* 1 - x and x * y
RatOneMinus(x) == <<x[2] - x[1], x[2]>>
RatTimes(x, y) == <<x[1] * y[1], x[2] * y[2]>>

\* the probability n/ProbScale
Prob(n) == <<n, ProbScale>>

\* values random.random() can return, as far as a comparison with the
\* threshold t <= 1 can tell them apart: t/2 when 0 < t; t when 0 <= t < 1;
\* (t+1)/2, or 0 for a negative t, when t < 1
DrawsAround(t) ==
    (IF t[1] > 0 THEN {<<t[1], 2 * t[2]>>} ELSE {})
    \cup (IF t[1] >= 0 /\ t[1] < t[2] THEN {t} ELSE {})
    \cup (IF t[1] < 0 THEN {<<0, 1>>}
          ELSE IF t[1] < t[2] THEN {<<t[1] + t[2], 2 * t[2]>>} ELSE {})

Range(s) == {s[k] : k \in 1..Len(s)}

----------------------------------------------------------------------------
(* Virus particles *)

SimpleVirus(maxBirthProb, clearProb) ==
    [maxBirthProb |-> maxBirthProb, clearProb |-> clearProb]

ResistantVirus(maxBirthProb, clearProb, resistances, mutProb) ==
    [maxBirthProb |-> maxBirthProb, clearProb |-> clearProb,
     resistance |-> resistances, mutProb |-> mutProb]

\* dict.get(key): <<value>> when the key is present, <<>> (None) otherwise
DictGet(dict, key) == IF key \in DOMAIN dict THEN <<dict[key]>> ELSE <<>>

IsResistantTo(self, drug) == DictGet(self.resistance, drug)

\* self.getClearProb() >= random.random()
DoesClear(self, r) == RatGeq(Prob(self.clearProb), r)

\* self.maxBirthProb * (1 - popDensity)
BirthProb(self, dens) == RatTimes(Prob(self.maxBirthProb), RatOneMinus(dens))

\* self.maxBirthProb * (1 - popDensity) >= random.random()
BirthTest(self, dens, r) == RatGeq(BirthProb(self, dens), r)

\* a variant of KeepTest with a non-strict comparison
KeepTest_nonStrict(self, r) == RatGeq(RatOneMinus(Prob(self.mutProb)), r)

\* (1 - self.mutProb) > random.random(): a resistant parent's trait is kept
KeepTest(self, r) == RatGt(RatOneMinus(Prob(self.mutProb)), r)

\* self.mutProb > random.random(): a non-resistant parent's trait is gained
GainTest(self, r) == RatGt(Prob(self.mutProb), r)

\* the threshold the draw for the key drug is compared with in new_res
MutThreshold(self, drug) ==
    IF self.resistance[drug] = TRUE THEN RatOneMinus(Prob(self.mutProb))
                                    ELSE Prob(self.mutProb)

\* SimpleVirus.reproduce: {} stands for NoChildException, {child} for the child
SimpleReproduce(self, dens, r) ==
    IF BirthTest(self, dens, r)
    THEN {SimpleVirus(self.maxBirthProb, self.clearProb)}
    ELSE {}

\* the flag `resistant` of ResistantVirus.reproduce
ResistantToAll(self, activeDrugs) ==
    ~ \E k \in 1..Len(activeDrugs) :
          DictGet(self.resistance, activeDrugs[k]) = <<FALSE>>

\* new_res of ResistantVirus.reproduce; m gives the draw made for each key
NewRes(self, m) ==
    [d \in DOMAIN self.resistance |->
        IF self.resistance[d] = TRUE THEN KeepTest(self, m[d])
                                     ELSE GainTest(self, m[d])]

ResistantReproduce(self, dens, activeDrugs, r, m) ==
    IF ResistantToAll(self, activeDrugs) /\ BirthTest(self, dens, r)
    THEN {ResistantVirus(self.maxBirthProb, self.clearProb, NewRes(self, m),
                         self.mutProb)}
    ELSE {}

----------------------------------------------------------------------------
(* Hosts *)

GetTotalPop == Len(viruses)

RECURSIVE SubCount_notFalse(_, _)
\* a variant of SubCount that counts every drug not mapped to False
SubCount_notFalse(virus, drugResist) ==
    IF drugResist = <<>> THEN 0
    ELSE (IF DictGet(virus.resistance, Head(drugResist)) # <<FALSE>> THEN 1 ELSE 0)
         + SubCount_notFalse(virus, Tail(drugResist))

RECURSIVE SubCount(_, _)
\* the inner loop of getResistPop: sub_count after the whole drugResist list
SubCount(virus, drugResist) ==
    IF drugResist = <<>> THEN 0
    ELSE (IF DictGet(virus.resistance, Head(drugResist)) = <<TRUE>> THEN 1 ELSE 0)
         + SubCount(virus, Tail(drugResist))

RECURSIVE GetResistPop(_, _)
\* the outer loop of getResistPop: count after the list vs of viruses
GetResistPop(vs, drugResist) ==
    IF vs = <<>> THEN 0
    ELSE (IF SubCount(Head(vs), drugResist) = Len(drugResist) THEN 1 ELSE 0)
         + GetResistPop(Tail(vs), drugResist)

\* a variant of Survives that keeps the cleared particles
Survives_keepsCleared(virus, r) == DoesClear(virus, r) = TRUE

\* virus.doesClear() == False: the particle is kept
Survives(virus, r) == DoesClear(virus, r) = FALSE

\* a variant of ComputeDensity that uses the population before clearance
ComputeDensity_preStep == <<Len(viruses), maxPop>>

\* len(surviving_virus)/float(self.getMaxPop())
ComputeDensity == <<Len(surviving_virus), maxPop>>

\* a variant of ReproduceOver that runs over the population before clearance
ReproduceOver_all == viruses

\* the list the reproduction loop of update() runs over
ReproduceOver == surviving_virus

\* drug lists a caller may pass to getResistPop (repetitions allowed), up to
\* the length that holds every drug
DrugLists == UNION {[1..n -> Drugs] : n \in 0..Cardinality(Drugs)}

\* resistance dictionaries: any subset of the drugs as keys
ResistanceMaps == UNION {[D -> BOOLEAN] : D \in SUBSET Drugs}

\* capacities: one particle, and the largest population update() is run on
MaxPops == {1, MaxViruses}

NoDensity == <<0, 1>>

\* ret while the last call has not returned a value
NoValue == -1

\* args while simulationWithoutDrug is not running
NoArgs == <<>>

Init ==
    /\ kind \in {"Patient", "TreatedPatient"}
    /\ maxPop \in MaxPops
    /\ \E n \in 0..MaxViruses, b \in Probs, c \in Probs :
          \/ /\ kind = "Patient"
             /\ viruses = [k \in 1..n |-> SimpleVirus(b, c)]
          \/ /\ kind = "TreatedPatient"
             /\ \E res \in ResistanceMaps, mu \in Probs :
                   viruses = [k \in 1..n |-> ResistantVirus(b, c, res, mu)]
    /\ presDrugs = <<>>
    /\ pc = "idle"
    /\ i = 0
    /\ surviving_virus = <<>>
    /\ popDensity = NoDensity
    /\ new_virus = <<>>
    /\ op = [name |-> "init", arg |-> <<>>]
    /\ ret = NoValue
    /\ oldPop = 0
    /\ calls = [doesClear |-> 0, reproduce |-> 0]
    /\ lastClear = {}
    /\ lastRepro = {}
    /\ args = NoArgs
    /\ simpc = "off"
    /\ trial = 0
    /\ step = 0
    /\ virus_count = <<>>
    /\ results = <<>>

\* a variant of Prescribe that appends without the membership test
Prescribe_noCheck(drugs, newDrug) == Append(drugs, newDrug)

\* if newDrug not in self.presDrugs: self.presDrugs.append(newDrug)
Prescribe(drugs, newDrug) ==
    IF newDrug \notin Range(drugs) THEN Append(drugs, newDrug) ELSE drugs

AddPrescription(newDrug) ==
    /\ pc = "idle"
    /\ kind = "TreatedPatient"
    /\ Len(viruses) <= MaxViruses
    /\ presDrugs' = Prescribe(presDrugs, newDrug)
    /\ op' = [name |-> "addPrescription", arg |-> <<newDrug>>]
    /\ ret' = NoValue
    /\ UNCHANGED <<kind, viruses, maxPop, pc, i, surviving_virus, popDensity,
                   new_virus, oldPop, calls, lastClear, lastRepro>>
    /\ UNCHANGED simVars

GetResistPopCall(drugResist) ==
    /\ pc = "idle"
    /\ kind = "TreatedPatient"
    /\ Len(viruses) <= MaxViruses
    /\ ret' = GetResistPop(viruses, drugResist)
    /\ op' = [name |-> "getResistPop", arg |-> drugResist]
    /\ UNCHANGED <<kind, viruses, maxPop, presDrugs, pc, i, surviving_virus,
                   popDensity, new_virus, oldPop, calls, lastClear, lastRepro>>
    /\ UNCHANGED simVars

\* update(): surviving_virus = []
UpdateEnter ==
    /\ pc = "idle"
    /\ Len(viruses) <= MaxViruses
    /\ surviving_virus' = <<>>
    /\ new_virus' = <<>>
    /\ popDensity' = NoDensity
    /\ i' = 1
    /\ pc' = "clear"
    /\ op' = [name |-> "update", arg |-> <<>>]
    /\ oldPop' = Len(viruses)
    /\ calls' = [doesClear |-> 0, reproduce |-> 0]
    /\ lastClear' = {}
    /\ lastRepro' = {}
    /\ ret' = NoValue
    /\ UNCHANGED <<kind, viruses, maxPop, presDrugs>>

\* update() called on the host directly
UpdateBegin == UpdateEnter /\ UNCHANGED simVars

\* update(): one iteration of `for virus in self.getViruses()`; r is the draw;
\* with track, atThreshold records whether it equalled clearProb
ClearStep(track) ==
    /\ pc = "clear"
    /\ i <= Len(viruses)
    /\ \E r \in DrawsAround(Prob(viruses[i].clearProb)) :
          /\ surviving_virus' = IF Survives(viruses[i], r)
                                THEN Append(surviving_virus, viruses[i])
                                ELSE surviving_virus
          /\ lastClear' = {[virus |-> viruses[i],
                            atThreshold |->
                                IF track THEN <<RatEq(r, Prob(viruses[i].clearProb))>>
                                ELSE <<>>,
                            result |-> DoesClear(viruses[i], r)]}
    /\ calls' = [calls EXCEPT !.doesClear = @ + 1]
    /\ i' = i + 1
    /\ UNCHANGED <<kind, viruses, maxPop, presDrugs, pc, popDensity, new_virus,
                   op, ret, oldPop, lastRepro>>
    /\ UNCHANGED simVars

\* update(): the first loop is over; popDensity = ...; new_virus = []
DensityStep ==
    /\ pc = "clear"
    /\ i > Len(viruses)
    /\ popDensity' = ComputeDensity
    /\ new_virus' = <<>>
    /\ i' = 1
    /\ pc' = "repro"
    /\ UNCHANGED <<kind, viruses, maxPop, presDrugs, surviving_virus, op, ret,
                   oldPop, calls, lastClear, lastRepro>>
    /\ UNCHANGED simVars

\* whether reproduce() of the particle reaches the birth test (the `and` of
\* ResistantVirus.reproduce makes no draw when `resistant` is False)
BirthTested(virus) == kind = "Patient" \/ ResistantToAll(virus, presDrugs)

\* the draws one reproduce() call of the particle can make for its keys
MutDraws(virus) ==
    IF kind = "Patient" THEN {<<>>}
    ELSE LET around(d) == DrawsAround(MutThreshold(virus, d))
             all == UNION {around(d) : d \in DOMAIN virus.resistance}
         IN {m \in [DOMAIN virus.resistance -> all] :
                \A d \in DOMAIN virus.resistance : m[d] \in around(d)}

\* update(): one iteration of `for virus in surviving_virus`; r is the draw of
\* the birth test and m the draws of the mutation tests; with track, birthAt
\* and mutAt record, for the draws the call consumed, whether the draw
\* equalled the threshold it was compared with
ReproduceStep(track) ==
    /\ pc = "repro"
    /\ i <= Len(ReproduceOver)
    /\ \E r \in DrawsAround(BirthProb(ReproduceOver[i], popDensity)),
          m \in MutDraws(ReproduceOver[i]) :
          LET virus == ReproduceOver[i]
              child == IF kind = "Patient"
                       THEN SimpleReproduce(virus, popDensity, r)
                       ELSE ResistantReproduce(virus, popDensity, presDrugs, r, m)
          IN /\ new_virus' = IF child = {} THEN new_virus
                             ELSE Append(new_virus, CHOOSE c \in child : TRUE)
             /\ lastRepro' = {[virus |-> virus, popDensity |-> popDensity,
                               activeDrugs |-> presDrugs,
                               birthAt |-> IF track /\ BirthTested(virus)
                                           THEN <<RatEq(r, BirthProb(virus, popDensity))>>
                                           ELSE <<>>,
                               mutAt |-> IF track /\ child # {}
                                         THEN [d \in DOMAIN m |->
                                                 RatEq(m[d], MutThreshold(virus, d))]
                                         ELSE <<>>,
                               born |-> Len(new_virus), child |-> child]}
    /\ calls' = [calls EXCEPT !.reproduce = @ + 1]
    /\ i' = i + 1
    /\ UNCHANGED <<kind, viruses, maxPop, presDrugs, pc, surviving_virus,
                   popDensity, op, ret, oldPop, lastClear>>
    /\ UNCHANGED simVars

\* update(): self.viruses = new_virus + surviving_virus
UpdateEnd ==
    /\ pc = "repro"
    /\ i > Len(ReproduceOver)
    /\ viruses' = new_virus \o surviving_virus
    /\ pc' = "return"
    /\ UNCHANGED <<kind, maxPop, presDrugs, i, surviving_virus, popDensity,
                   new_virus, op, ret, oldPop, calls, lastClear, lastRepro>>
    /\ UNCHANGED simVars

\* update(): return len(self.viruses); the locals of the call are gone
UpdateLeave ==
    /\ pc = "return"
    /\ ret' = Len(viruses)
    /\ pc' = "idle"
    /\ i' = 0
    /\ surviving_virus' = <<>>
    /\ new_virus' = <<>>
    /\ popDensity' = NoDensity
    /\ calls' = [doesClear |-> 0, reproduce |-> 0]
    /\ lastClear' = {}
    /\ lastRepro' = {}
    /\ oldPop' = 0
    /\ UNCHANGED <<kind, viruses, maxPop, presDrugs, op>>

\* update() returning to a direct caller
UpdateReturn == UpdateLeave /\ UNCHANGED simVars

\* the methods of the host
HostCall ==
    \/ \E d \in Drugs : AddPrescription(d)
    \/ \E dl \in DrugLists : GetResistPopCall(dl)
    \/ UpdateBegin
    \/ DensityStep
    \/ UpdateEnd
    \/ UpdateReturn

Next ==
    \/ HostCall
    \/ ClearStep(FALSE)
    \/ ReproduceStep(FALSE)

\* the same program, recording which draws equalled their threshold
NextDraws ==
    \/ HostCall
    \/ ClearStep(TRUE)
    \/ ReproduceStep(TRUE)

Spec == Init /\ [][Next]_vars

SpecDraws == Init /\ [][NextDraws]_vars

----------------------------------------------------------------------------
(* simulationWithoutDrug(numViruses, maxPop, maxBirthProb, clearProb,      *)
(* numTrials), up to the plotting                                         *)

\* steps = 301
steps == 301

\* the iterations of `for _ in range(steps)` that are followed
StepsRun == IF steps < MaxSteps THEN steps ELSE MaxSteps

\* virus: numViruses times SimpleVirus(maxBirthProb, clearProb)
SimViruses(a) == [k \in 1..a.numViruses |-> SimpleVirus(a.maxBirthProb, a.clearProb)]

\* steps = 301; virus = [...]; patient = Patient(virus, maxPop); results = {}
InitSim ==
    /\ \E n \in 0..MaxViruses, b \in Probs, c \in Probs, t \in 1..MaxTrials :
          args = [numViruses |-> n, maxBirthProb |-> b, clearProb |-> c,
                  numTrials |-> t]
    /\ kind = "Patient"
    /\ maxPop \in MaxPops
    /\ viruses = SimViruses(args)
    /\ presDrugs = <<>>
    /\ pc = "idle"
    /\ i = 0
    /\ surviving_virus = <<>>
    /\ popDensity = NoDensity
    /\ new_virus = <<>>
    /\ op = [name |-> "init", arg |-> <<>>]
    /\ ret = NoValue
    /\ oldPop = 0
    /\ calls = [doesClear |-> 0, reproduce |-> 0]
    /\ lastClear = {}
    /\ lastRepro = {}
    /\ simpc = "trial"
    /\ trial = 0
    /\ step = 0
    /\ virus_count = <<>>
    /\ results = <<>>

hostVars == <<kind, viruses, maxPop, presDrugs, pc, i, surviving_virus,
              popDensity, new_virus, op, ret, oldPop, calls, lastClear, lastRepro>>

\* for i in range(numTrials): virus_count = []
SimTrialBegin ==
    /\ simpc = "trial"
    /\ trial < args.numTrials
    /\ virus_count' = <<>>
    /\ step' = 0
    /\ simpc' = "loop"
    /\ UNCHANGED <<hostVars, args, trial, results>>

\* for _ in range(steps): patient.update() is entered
SimUpdateCall ==
    /\ simpc = "loop"
    /\ step < StepsRun
    /\ UpdateEnter
    /\ simpc' = "update"
    /\ UNCHANGED <<args, trial, step, virus_count, results>>

\* patient.update() returns; virus_count.append(patient.getTotalPop())
SimUpdateReturn ==
    /\ simpc = "update"
    /\ UpdateLeave
    /\ virus_count' = Append(virus_count, Len(viruses))
    /\ step' = step + 1
    /\ simpc' = "loop"
    /\ UNCHANGED <<args, trial, results>>

\* the inner loop is over: results[i] = virus_count; next i
SimTrialEnd ==
    /\ simpc = "loop"
    /\ step = StepsRun
    /\ results' = Append(results, virus_count)
    /\ trial' = trial + 1
    /\ simpc' = IF trial + 1 < args.numTrials THEN "trial" ELSE "done"
    /\ UNCHANGED <<hostVars, args, step, virus_count>>

NextSim ==
    \/ SimTrialBegin
    \/ SimUpdateCall
    \/ ClearStep(FALSE)
    \/ DensityStep
    \/ ReproduceStep(FALSE)
    \/ UpdateEnd
    \/ SimUpdateReturn
    \/ SimTrialEnd

SpecSim == InitSim /\ [][NextSim]_vars

----------------------------------------------------------------------------
(* Properties *)

\* C1: a ResistantVirus that is not resistant (isResistantTo is not True: the
\* map holds False or no entry) to some active drug gets NoChildException
\* from reproduce, whatever maxBirthProb, density and draws.
DrugGating ==
    \A rp \in lastRepro :
        ( /\ kind = "TreatedPatient"
          /\ \E k \in 1..Len(rp.activeDrugs) :
                 IsResistantTo(rp.virus, rp.activeDrugs[k]) # <<TRUE>> )
        => rp.child = {}

\* C2 (as stated): with mutProb = 1 the offspring is resistant to every drug
\* key of the parent's resistance map, whatever the parent's state.
MutationOneAllResistant ==
    \A rp \in lastRepro :
        (kind = "TreatedPatient" /\ rp.virus.mutProb = ProbScale)
        => \A c \in rp.child :
              \A d \in DOMAIN rp.virus.resistance : c.resistance[d] = TRUE

\* C2 (amended): with mutProb = 1 the offspring has the parent's drug keys and
\* for each of them the negation of the parent's state, whatever the draws.
MutationOneNegates ==
    \A rp \in lastRepro :
        (kind = "TreatedPatient" /\ rp.virus.mutProb = ProbScale)
        => \A c \in rp.child :
              /\ DOMAIN c.resistance = DOMAIN rp.virus.resistance
              /\ \A d \in DOMAIN rp.virus.resistance :
                     c.resistance[d] = ~ rp.virus.resistance[d]

\* a parent with mutProb = 1, one resistant and one non-resistant trait, has
\* reproduced
MutationOneWitness ==
    \E rp \in lastRepro :
        /\ kind = "TreatedPatient"
        /\ rp.virus.mutProb = ProbScale
        /\ rp.child # {}
        /\ \E d, e \in DOMAIN rp.virus.resistance :
               rp.virus.resistance[d] = TRUE /\ rp.virus.resistance[e] = FALSE

\* C3: when maxBirthProb * (1 - popDensity) <= 0, reproduce raises
\* NoChildException for every draw in [0,1), for both kinds of particle.
NoBirthAtNonPositiveProb ==
    \A rp \in lastRepro :
        RatGeq(<<0, 1>>, BirthProb(rp.virus, rp.popDensity)) => rp.child = {}

\* C4: for every draw in [0,1), doesClear is False with clearProb = 0 and True
\* with clearProb = 1.
ClearanceBoundary ==
    \A c \in lastClear :
        /\ c.virus.clearProb = 0 => c.result = FALSE
        /\ c.virus.clearProb = ProbScale => c.result = TRUE

\* C5: in an update() every particle of the old population is asked to clear
\* once, every survivor is asked to reproduce once, no offspring exists while
\* clearance runs, and the new population is the survivors plus at most one
\* offspring each: |survivors| <= new <= 2 * |survivors| <= 2 * old.
GrowthBound ==
    /\ pc = "clear" => new_virus = <<>> /\ calls.reproduce = 0
    /\ pc = "repro" => calls.reproduce = i - 1 /\ Len(new_virus) <= i - 1
    /\ pc = "return" =>
          /\ calls.doesClear = oldPop
          /\ calls.reproduce = Len(surviving_virus)
          /\ Len(surviving_virus) <= Len(viruses)
          /\ Len(viruses) <= 2 * Len(surviving_virus)
          /\ 2 * Len(surviving_virus) <= 2 * oldPop

\* an update() in which a particle was cleared and a survivor had offspring
GrowthBoundWitness ==
    /\ pc = "return"
    /\ Len(surviving_virus) < oldPop
    /\ Len(new_virus) >= 1
    /\ Len(viruses) = 2 * Len(surviving_virus)

\* C6: an update() of a host whose particles all have clearProb = 1 leaves the
\* population empty; an empty population stays empty, and an update() of it
\* returns 0.
ExtinctionAbsorbing ==
    [][ /\ viruses = <<>> => viruses' = <<>>
        /\ ( /\ pc = "repro" /\ pc' = "return"
             /\ \A k \in 1..Len(viruses) : viruses[k].clearProb = ProbScale )
           => viruses' = <<>>
        /\ (pc = "return" /\ pc' = "idle" /\ viruses = <<>>) => ret' = 0
      ]_vars

\* an update() has emptied a non-empty population of particles with
\* clearProb = 1 and maxBirthProb = 1
ExtinctionWitness ==
    /\ pc = "return"
    /\ oldPop >= 1
    /\ viruses = <<>>
    /\ \E c \in lastClear : /\ c.virus.clearProb = ProbScale
                            /\ c.virus.maxBirthProb = ProbScale

NoDuplicates(s) == \A j, k \in 1..Len(s) : s[j] = s[k] => j = k

\* C7: addPrescription(d) makes the active drugs the previous ones plus d,
\* each drug present once; it changes nothing when d is already prescribed;
\* no step of the host ever removes a prescribed drug.
AddPrescriptionGrowOnly ==
    [][ /\ Range(presDrugs) \subseteq Range(presDrugs')
        /\ NoDuplicates(presDrugs')
        /\ op'.name = "addPrescription" =>
              /\ Range(presDrugs') = Range(presDrugs) \cup {op'.arg[1]}
              /\ op'.arg[1] \in Range(presDrugs) => presDrugs' = presDrugs
      ]_vars

\* addPrescription was called for the drug prescribed first, after a second
\* drug had been prescribed
AddPrescriptionWitness ==
    /\ Len(presDrugs) = 2
    /\ op.name = "addPrescription"
    /\ op.arg[1] = presDrugs[1]

\* C8: getResistPop(drugResist) returns the number of particles whose
\* resistance map is True for every drug of drugResist; the full population
\* for an empty drugResist; never more than getTotalPop().
ResistantCountExact ==
    (pc = "idle" /\ op.name = "getResistPop") =>
        /\ ret = Cardinality({k \in 1..Len(viruses) :
                     \A j \in 1..Len(op.arg) :
                         IsResistantTo(viruses[k], op.arg[j]) = <<TRUE>>})
        /\ op.arg = <<>> => ret = GetTotalPop
        /\ ret <= GetTotalPop

\* getResistPop was asked for two different drugs on a population where some
\* but not all particles are resistant to both
ResistantCountWitness ==
    /\ pc = "idle"
    /\ op.name = "getResistPop"
    /\ Len(op.arg) = 2
    /\ op.arg[1] # op.arg[2]
    /\ ret >= 1
    /\ ret < GetTotalPop

\* C9: in an update() all clearance decisions precede the density, the density
\* is len(survivors)/maxPop, and every reproduce call of the update gets that
\* value, however many offspring the update has produced so far.
DensitySnapshot ==
    /\ pc = "clear" => popDensity = NoDensity /\ lastRepro = {}
    /\ pc \in {"repro", "return"} =>
          /\ calls.doesClear = oldPop
          /\ Len(surviving_virus) <= oldPop
          /\ popDensity = <<Len(surviving_virus), maxPop>>
    /\ \A rp \in lastRepro :
          /\ calls.doesClear = oldPop
          /\ rp.popDensity = <<Len(surviving_virus), maxPop>>

\* a reproduce call made when the update had already produced an offspring
DensitySnapshotWitness ==
    \E rp \in lastRepro : rp.born >= 1 /\ rp.child # {}

\* the probability tests recorded in the state: the threshold, whether the
\* draw equalled it, and whether the test succeeded
ClearTests ==
    {[threshold |-> Prob(c.virus.clearProb), atThreshold |-> c.atThreshold[1],
      result |-> c.result] : c \in {x \in lastClear : x.atThreshold # <<>>}}

BirthTests ==
    {[threshold |-> BirthProb(rp.virus, rp.popDensity),
      atThreshold |-> rp.birthAt[1],
      result |-> rp.child # {}] : rp \in {x \in lastRepro : x.birthAt # <<>>}}

MutationTests ==
    UNION {UNION {{[threshold |-> MutThreshold(rp.virus, d),
                    atThreshold |-> rp.mutAt[d],
                    result |-> c.resistance[d]] : d \in DOMAIN c.resistance}
                  : c \in rp.child}
           : rp \in {x \in lastRepro : x.mutAt # <<>>}}

\* C10: the clearance, birth and mutation tests treat a draw equal to the
\* threshold probability alike: for one probability p and draw = p they all
\* succeed or all fail.
UniformThreshold ==
    \A t, u \in ClearTests \cup BirthTests \cup MutationTests :
        (t.atThreshold /\ u.atThreshold /\ RatEq(t.threshold, u.threshold))
        => t.result = u.result

\* C11: in simulationWithoutDrug the first update() of every trial runs on a
\* freshly instantiated patient: its population is the initial numViruses
\* particles, nothing of an earlier trial is carried over.
TrialIndependence ==
    (simpc = "update" /\ step = 0 /\ pc \in {"clear", "repro"})
    => viruses = SimViruses(args)

====
